---- MODULE Spec2Model ----
(***************************************************************************)
(* nullfs: a FUSE filesystem with two fixed inodes, the root directory     *)
(* (inode 1) and the regular file "null" (inode 2).  The handler NullFS is *)
(* a unit struct: every reply is computed from the request's arguments and *)
(* the two constant attribute tables.  The model dispatches one request    *)
(* per step, as the session loop does, and records the reply events the    *)
(* handler emits on its reply object.                                      *)
(***************************************************************************)
EXTENDS Integers, Sequences, FiniteSets

(* ------------------------------------------------------------------ *)
(* State                                                               *)
(* ------------------------------------------------------------------ *)

VARIABLES
    req,    \* the request being answered
    out,    \* the events the handler emitted on that request's reply object
    prev,   \* the exchange before it, as the kernel saw it: operation,
            \* inode (or parent), errno (0: success) and byte/entry count
    pc,     \* where the process is: "main", "mounted" (inside fuser::mount),
            \* "usage" (clap's error exit), "panicked", "exited"
    argv,   \* the command line: the positional MOUNT (<< >>: not given) and
            \* the values of the -o/--option occurrences, in order
    mounted \* the call of fuser::mount, if main made it: path and options

vars == <<req, out, prev, pc, argv, mounted>>

(* ------------------------------------------------------------------ *)
(* Bounds of the request arguments                                     *)
(* ------------------------------------------------------------------ *)

\* inode numbers 1..MaxIno are sent; 3 and above name no entity
MaxIno == 3
\* file handles 0..MaxFh are passed by the kernel: 1 is the handle opendir
\* returns, 2 the one open and create return, 0 is returned by nothing
MaxFh == 2
\* directory offsets -1..MaxOffset; file offsets 0 and MaxOffset
MaxOffset == 4
\* the requested size of a read or of a getxattr: 0, 1 or MaxSize
MaxSize == 5
\* the length of the zero-filled write buffer
MaxLen == 3

(* ------------------------------------------------------------------ *)
(* Program constants                                                   *)
(* ------------------------------------------------------------------ *)

EPERM == 1
ENOENT == 2
ERANGE == 34

\* Duration::from_secs(1), in seconds
TTL == 1

\* SystemTime::UNIX_EPOCH, in seconds since the epoch
UNIX_EPOCH == 0

DIR_ATTR ==
    [ino |-> 1, size |-> 0, blocks |-> 0,
     atime |-> UNIX_EPOCH, mtime |-> UNIX_EPOCH,
     ctime |-> UNIX_EPOCH, crtime |-> UNIX_EPOCH,
     kind |-> "Directory", perm |-> 511, nlink |-> 2,
     uid |-> 0, gid |-> 0, rdev |-> 0, flags |-> 0, blksize |-> 0]

NULL_ATTR ==
    [ino |-> 2, size |-> 0, blocks |-> 1,
     atime |-> UNIX_EPOCH, mtime |-> UNIX_EPOCH,
     ctime |-> UNIX_EPOCH, crtime |-> UNIX_EPOCH,
     kind |-> "RegularFile", perm |-> 438, nlink |-> 1,
     uid |-> 0, gid |-> 0, rdev |-> 0, flags |-> 0, blksize |-> 0]

(* ------------------------------------------------------------------ *)
(* Integer casts                                                       *)
(* ------------------------------------------------------------------ *)

\* Unsigned machine words are kept as 16-bit limbs, least significant first,
\* so that a cast keeps its width: u32 is two limbs, usize (64-bit) is four.
LimbBase == 2^16

\* the k low limbs of the two's complement of the signed value x: \div
\* rounds down, so each step is an arithmetic shift right by 16 bits
RECURSIVE Limbs(_, _)
Limbs(x, k) ==
    IF k = 0 THEN << >>
    ELSE <<x % LimbBase>> \o Limbs(x \div LimbBase, k - 1)

\* `x as u32` (i32 flags, usize lengths)
AsU32(x) == Limbs(x, 2)

AsUsize_clampsNegative(x) == Limbs(IF x < 0 THEN 0 ELSE x, 4)

\* `offset as usize` of an i64, on a 64-bit target
AsUsize(x) == Limbs(x, 4)

\* whether the word w is below the small count n (n < 2^16)
WordBelow(w, n) ==
    /\ \A i \in 2..Len(w) : w[i] = 0
    /\ w[1] < n

(* ------------------------------------------------------------------ *)
(* Reply events: what a handler calls on its reply object              *)
(* ------------------------------------------------------------------ *)

Error(e) == [t |-> "error", errno |-> e]
Attr(ttl, attr) == [t |-> "attr", ttl |-> ttl, attr |-> attr]
Entry(ttl, attr, generation) ==
    [t |-> "entry", ttl |-> ttl, attr |-> attr, generation |-> generation]
Data(bytes) == [t |-> "data", data |-> bytes]
Add(ino, offset, kind, name) ==
    [t |-> "add", ino |-> ino, offset |-> offset, kind |-> kind, name |-> name]
Ok == [t |-> "ok"]
Written(size) == [t |-> "written", size |-> size]
Created(ttl, attr, generation, fh, flags) ==
    [t |-> "created", ttl |-> ttl, attr |-> attr, generation |-> generation,
     fh |-> fh, flags |-> flags]
Opened(fh, flags) == [t |-> "opened", fh |-> fh, flags |-> flags]
XattrSize(size) == [t |-> "size", size |-> size]

(* ------------------------------------------------------------------ *)
(* The handlers of impl Filesystem for NullFS.  Each yields the        *)
(* sequence of events it emits on its reply object.                    *)
(* ------------------------------------------------------------------ *)

lookup_anyParent(parent, name) ==
    IF name = "null"
    THEN <<Entry(TTL, NULL_ATTR, 0)>>
    ELSE <<Error(ENOENT)>>

lookup(parent, name) ==
    IF parent = 1 /\ name = "null"
    THEN <<Entry(TTL, NULL_ATTR, 0)>>
    ELSE <<Error(ENOENT)>>

getattr_sameArm(ino) ==
    CASE ino = 1 -> <<Attr(TTL, DIR_ATTR)>>
      [] ino = 2 -> <<Attr(TTL, DIR_ATTR)>>
      [] OTHER   -> <<Error(ENOENT)>>

getattr(ino) ==
    CASE ino = 1 -> <<Attr(TTL, DIR_ATTR)>>
      [] ino = 2 -> <<Attr(TTL, NULL_ATTR)>>
      [] OTHER   -> <<Error(ENOENT)>>

setattr_appliesSize(ino, chg) ==
    CASE ino = 1 -> <<Attr(TTL, DIR_ATTR)>>
      [] ino = 2 -> <<Attr(TTL, IF chg.size = << >> THEN NULL_ATTR
                                ELSE [NULL_ATTR EXCEPT !.size = chg.size[1]])>>
      [] OTHER   -> <<Error(ENOENT)>>

\* chg holds the requested fields (_mode, _uid, _gid, _size, _atime, _mtime,
\* _flags), each << >> (None) or <<value>> (Some); none of them is read
setattr(ino, chg) ==
    CASE ino = 1 -> <<Attr(TTL, DIR_ATTR)>>
      [] ino = 2 -> <<Attr(TTL, NULL_ATTR)>>
      [] OTHER   -> <<Error(ENOENT)>>

read_zeroFill(ino, fh, offset, size) ==
    IF ino = 2
    THEN <<Data([i \in 1..size |-> 0])>>
    ELSE <<Error(ENOENT)>>

read_returnsLastWrite(ino, fh, offset, size) ==
    IF ino = 2
    THEN <<Data(IF req.op = "write" /\ req.ino = 2 THEN req.data ELSE << >>)>>
    ELSE <<Error(ENOENT)>>

read(ino, fh, offset, size) ==
    IF ino = 2
    THEN <<Data(<< >>)>>
    ELSE <<Error(ENOENT)>>

entries_nullIsDir ==
    << <<1, "Directory", ".">>,
       <<1, "Directory", "..">>,
       <<2, "Directory", "null">> >>

\* the vec! of readdir: (inode, kind, name)
entries ==
    << <<1, "Directory", ".">>,
       <<1, "Directory", "..">>,
       <<2, "RegularFile", "null">> >>

\* entries.into_iter().enumerate().skip(n): the 0-based indexes i >= n, in order
SkipIndexes(n) ==
    LET first == IF WordBelow(n, Len(entries)) THEN n[1] ELSE Len(entries)
    IN  [j \in 1..(Len(entries) - first) |-> first + j - 1]

readdir_cookieIsIndex(ino, fh, offset) ==
    IF ino # 1
    THEN <<Error(ENOENT)>>
    ELSE LET idx == SkipIndexes(AsUsize(offset))
         IN  [j \in 1..Len(idx) |->
                 Add(entries[idx[j] + 1][1], idx[j],
                     entries[idx[j] + 1][2], entries[idx[j] + 1][3])]
             \o <<Ok>>

readdir_noReturn(ino, fh, offset) ==
    LET idx == SkipIndexes(AsUsize(offset))
    IN  (IF ino # 1 THEN <<Error(ENOENT)>> ELSE << >>)
        \o [j \in 1..Len(idx) |->
               Add(entries[idx[j] + 1][1], idx[j] + 1,
                   entries[idx[j] + 1][2], entries[idx[j] + 1][3])]
        \o <<Ok>>

readdir(ino, fh, offset) ==
    IF ino # 1
    THEN <<Error(ENOENT)>>
    ELSE LET idx == SkipIndexes(AsUsize(offset))
         IN  [j \in 1..Len(idx) |->
                 Add(entries[idx[j] + 1][1], idx[j] + 1,
                     entries[idx[j] + 1][2], entries[idx[j] + 1][3])]
             \o <<Ok>>

write_reportsNothing(ino, fh, offset, data) ==
    IF ino # 2
    THEN <<Error(ENOENT)>>
    ELSE <<Written(AsU32(0))>>

write(ino, fh, offset, data) ==
    IF ino # 2
    THEN <<Error(ENOENT)>>
    ELSE <<Written(AsU32(Len(data)))>>

create_anyName(parent, name, flags) ==
    IF parent = 1
    THEN <<Created(TTL, NULL_ATTR, 0, 2, AsU32(flags))>>
    ELSE <<Error(EPERM)>>

create(parent, name, flags) ==
    IF parent = 1 /\ name = "null"
    THEN <<Created(TTL, NULL_ATTR, 0, 2, AsU32(flags))>>
    ELSE <<Error(EPERM)>>

mknod(parent, name) ==
    IF parent = 1 /\ name = "null"
    THEN <<Entry(TTL, NULL_ATTR, 0)>>
    ELSE <<Error(EPERM)>>

flush_checksHandle(ino, fh) ==
    CASE ino = 1 -> <<Error(EPERM)>>
      [] ino = 2 -> IF fh = 2 THEN <<Ok>> ELSE <<Error(EPERM)>>
      [] OTHER   -> <<Error(ENOENT)>>

flush(ino, fh) ==
    CASE ino = 1 -> <<Error(EPERM)>>
      [] ino = 2 -> <<Ok>>
      [] OTHER   -> <<Error(ENOENT)>>

release_dirArms(ino, fh) ==
    CASE ino = 1 -> <<Ok>>
      [] ino = 2 -> <<Error(EPERM)>>
      [] OTHER   -> <<Error(ENOENT)>>

release(ino, fh) ==
    CASE ino = 1 -> <<Error(EPERM)>>
      [] ino = 2 -> <<Ok>>
      [] OTHER   -> <<Error(ENOENT)>>

fsync(ino, fh) ==
    CASE ino = 1 -> <<Error(EPERM)>>
      [] ino = 2 -> <<Ok>>
      [] OTHER   -> <<Error(ENOENT)>>

open_noKindSplit(ino, flags) ==
    CASE ino = 1 -> <<Opened(1, AsU32(flags))>>
      [] ino = 2 -> <<Opened(2, AsU32(flags))>>
      [] OTHER   -> <<Error(ENOENT)>>

open(ino, flags) ==
    CASE ino = 1 -> <<Error(EPERM)>>
      [] ino = 2 -> <<Opened(2, AsU32(flags))>>
      [] OTHER   -> <<Error(ENOENT)>>

releasedir(ino, fh) ==
    CASE ino = 1 -> <<Ok>>
      [] ino = 2 -> <<Error(EPERM)>>
      [] OTHER   -> <<Error(ENOENT)>>

fsyncdir(ino, fh) ==
    CASE ino = 1 -> <<Ok>>
      [] ino = 2 -> <<Error(EPERM)>>
      [] OTHER   -> <<Error(ENOENT)>>

opendir(ino, flags) ==
    CASE ino = 1 -> <<Opened(1, AsU32(flags))>>
      [] ino = 2 -> <<Error(EPERM)>>
      [] OTHER   -> <<Error(ENOENT)>>

access(ino, mask) ==
    CASE ino = 1 -> <<Ok>>
      [] ino = 2 -> <<Ok>>
      [] OTHER   -> <<Error(ENOENT)>>

getxattr_ignoresSize(ino, name, size) ==
    CASE ino = 1 -> <<XattrSize(0)>>
      [] ino = 2 -> <<XattrSize(0)>>
      [] OTHER   -> <<Error(ENOENT)>>

getxattr(ino, name, size) ==
    IF size = 0
    THEN CASE ino = 1 -> <<XattrSize(0)>>
           [] ino = 2 -> <<XattrSize(0)>>
           [] OTHER   -> <<Error(ENOENT)>>
    ELSE <<Error(ERANGE)>>

(* ------------------------------------------------------------------ *)
(* Requests the kernel sends                                            *)
(* ------------------------------------------------------------------ *)

Inodes == 1..MaxIno
Fhs == 0..MaxFh
Names == {".", "..", "null", "nul"}
XattrNames == {"user.x", "security.capability"}
\* readdir offsets (i64): the small ones, and -1, -2^16 and 2^16, whose
\* unsigned words have a low limb of 65535, 0 and 0
DirOffsets == {-65536, -1, 65536} \cup (0..MaxOffset)
\* read and write offsets (i64): the start, and one beyond the reported size 0
FileOffsets == {0, MaxOffset}
Sizes == {0, 1, MaxSize}
\* open flags (i32): O_RDWR, and all bits set
Flags == {2, -1}
\* access masks: F_OK, R_OK
Masks == {0, 4}

\* b"hello"
Hello == <<104, 101, 108, 108, 111>>
DataSet == {<< >>, Hello, [i \in 1..MaxLen |-> 0]}

\* the Option fields of a setattr request: << >> (None) or <<value>> (Some)
NoChange ==
    [mode |-> << >>, uid |-> << >>, gid |-> << >>, size |-> << >>,
     atime |-> << >>, mtime |-> << >>, flags |-> << >>]
SizeOnly == [NoChange EXCEPT !.size = <<MaxSize>>]
AllChanged ==
    [mode |-> <<384>>, uid |-> <<1000>>, gid |-> <<1000>>, size |-> <<MaxSize>>,
     atime |-> <<TTL>>, mtime |-> <<TTL>>, flags |-> <<1>>]
Changes == {NoChange, SizeOnly, AllChanged}

(* ------------------------------------------------------------------ *)
(* The kernel's view of an exchange                                    *)
(* ------------------------------------------------------------------ *)

\* the reply that ends an exchange
Final(o) == o[Len(o)]

\* the errno of an exchange, 0 when it succeeded
Errno(o) == IF Final(o).t = "error" THEN Final(o).errno ELSE 0

\* bytes acknowledged (written: the value of the u32 word), bytes returned
\* (data) or entries listed
Count(o) ==
    CASE Final(o).t = "written" ->
             Final(o).size[1] + LimbBase * Final(o).size[2]
      [] Final(o).t = "data"    -> Len(Final(o).data)
      [] OTHER                  -> Len(o) - 1

\* the inode a request addresses: its ino, or its parent
Target(r) ==
    CASE r.op \in {"lookup", "create", "mknod"} -> r.parent
      [] r.op = "init"                          -> 0
      [] OTHER                                  -> r.ino

Summary(r, o) ==
    [op |-> r.op, ino |-> Target(r), err |-> Errno(o), n |-> Count(o)]

\* the mounted filesystem has answered the kernel's init (the trait's
\* default), main having been run as  nullfs -o ro /mnt
Init ==
    /\ req = [op |-> "init"]
    /\ out = <<Ok>>
    /\ prev = [op |-> "none", ino |-> 0, err |-> 0, n |-> 0]
    /\ pc = "mounted"
    /\ argv = [mount |-> <<"/mnt">>, option |-> <<"ro">>]
    /\ mounted = [called |-> TRUE, path |-> "/mnt", options |-> <<"-o", "ro">>]

\* Each action is one pass of the session loop: it hands a request to its
\* handler, which emits its reply events; the kernel keeps the last exchange.

Lookup ==
    \E parent \in Inodes, name \in Names :
        /\ req' = [op |-> "lookup", parent |-> parent, name |-> name]
        /\ out' = lookup(parent, name)
        /\ prev' = Summary(req, out)
        /\ pc = "mounted" /\ req.op # "none"
        /\ UNCHANGED <<pc, argv, mounted>>

Getattr ==
    \E ino \in Inodes :
        /\ req' = [op |-> "getattr", ino |-> ino]
        /\ out' = getattr(ino)
        /\ prev' = Summary(req, out)
        /\ pc = "mounted" /\ req.op # "none"
        /\ UNCHANGED <<pc, argv, mounted>>

Setattr ==
    \E ino \in Inodes, chg \in Changes :
        /\ req' = [op |-> "setattr", ino |-> ino, chg |-> chg]
        /\ out' = setattr(ino, chg)
        /\ prev' = Summary(req, out)
        /\ pc = "mounted" /\ req.op # "none"
        /\ UNCHANGED <<pc, argv, mounted>>

Read ==
    \E ino \in Inodes, fh \in Fhs, offset \in FileOffsets, size \in Sizes :
        /\ req' = [op |-> "read", ino |-> ino, fh |-> fh,
                   offset |-> offset, size |-> size]
        /\ out' = read(ino, fh, offset, size)
        /\ prev' = Summary(req, out)
        /\ pc = "mounted" /\ req.op # "none"
        /\ UNCHANGED <<pc, argv, mounted>>

Readdir ==
    \E ino \in Inodes, fh \in Fhs, offset \in DirOffsets :
        /\ req' = [op |-> "readdir", ino |-> ino, fh |-> fh, offset |-> offset]
        /\ out' = readdir(ino, fh, offset)
        /\ prev' = Summary(req, out)
        /\ pc = "mounted" /\ req.op # "none"
        /\ UNCHANGED <<pc, argv, mounted>>

Write ==
    \E ino \in Inodes, fh \in Fhs, offset \in FileOffsets, data \in DataSet :
        /\ req' = [op |-> "write", ino |-> ino, fh |-> fh,
                   offset |-> offset, data |-> data]
        /\ out' = write(ino, fh, offset, data)
        /\ prev' = Summary(req, out)
        /\ pc = "mounted" /\ req.op # "none"
        /\ UNCHANGED <<pc, argv, mounted>>

Create ==
    \E parent \in Inodes, name \in Names, flags \in Flags :
        /\ req' = [op |-> "create", parent |-> parent, name |-> name,
                   flags |-> flags]
        /\ out' = create(parent, name, flags)
        /\ prev' = Summary(req, out)
        /\ pc = "mounted" /\ req.op # "none"
        /\ UNCHANGED <<pc, argv, mounted>>

Mknod ==
    \E parent \in Inodes, name \in Names :
        /\ req' = [op |-> "mknod", parent |-> parent, name |-> name]
        /\ out' = mknod(parent, name)
        /\ prev' = Summary(req, out)
        /\ pc = "mounted" /\ req.op # "none"
        /\ UNCHANGED <<pc, argv, mounted>>

Flush ==
    \E ino \in Inodes, fh \in Fhs :
        /\ req' = [op |-> "flush", ino |-> ino, fh |-> fh]
        /\ out' = flush(ino, fh)
        /\ prev' = Summary(req, out)
        /\ pc = "mounted" /\ req.op # "none"
        /\ UNCHANGED <<pc, argv, mounted>>

Release ==
    \E ino \in Inodes, fh \in Fhs :
        /\ req' = [op |-> "release", ino |-> ino, fh |-> fh]
        /\ out' = release(ino, fh)
        /\ prev' = Summary(req, out)
        /\ pc = "mounted" /\ req.op # "none"
        /\ UNCHANGED <<pc, argv, mounted>>

Fsync ==
    \E ino \in Inodes, fh \in Fhs :
        /\ req' = [op |-> "fsync", ino |-> ino, fh |-> fh]
        /\ out' = fsync(ino, fh)
        /\ prev' = Summary(req, out)
        /\ pc = "mounted" /\ req.op # "none"
        /\ UNCHANGED <<pc, argv, mounted>>

Open ==
    \E ino \in Inodes, flags \in Flags :
        /\ req' = [op |-> "open", ino |-> ino, flags |-> flags]
        /\ out' = open(ino, flags)
        /\ prev' = Summary(req, out)
        /\ pc = "mounted" /\ req.op # "none"
        /\ UNCHANGED <<pc, argv, mounted>>

Releasedir ==
    \E ino \in Inodes, fh \in Fhs :
        /\ req' = [op |-> "releasedir", ino |-> ino, fh |-> fh]
        /\ out' = releasedir(ino, fh)
        /\ prev' = Summary(req, out)
        /\ pc = "mounted" /\ req.op # "none"
        /\ UNCHANGED <<pc, argv, mounted>>

Fsyncdir ==
    \E ino \in Inodes, fh \in Fhs :
        /\ req' = [op |-> "fsyncdir", ino |-> ino, fh |-> fh]
        /\ out' = fsyncdir(ino, fh)
        /\ prev' = Summary(req, out)
        /\ pc = "mounted" /\ req.op # "none"
        /\ UNCHANGED <<pc, argv, mounted>>

Opendir ==
    \E ino \in Inodes, flags \in Flags :
        /\ req' = [op |-> "opendir", ino |-> ino, flags |-> flags]
        /\ out' = opendir(ino, flags)
        /\ prev' = Summary(req, out)
        /\ pc = "mounted" /\ req.op # "none"
        /\ UNCHANGED <<pc, argv, mounted>>

Access ==
    \E ino \in Inodes, mask \in Masks :
        /\ req' = [op |-> "access", ino |-> ino, mask |-> mask]
        /\ out' = access(ino, mask)
        /\ prev' = Summary(req, out)
        /\ pc = "mounted" /\ req.op # "none"
        /\ UNCHANGED <<pc, argv, mounted>>

Getxattr ==
    \E ino \in Inodes, name \in XattrNames, size \in Sizes :
        /\ req' = [op |-> "getxattr", ino |-> ino, name |-> name,
                   size |-> size]
        /\ out' = getxattr(ino, name, size)
        /\ prev' = Summary(req, out)
        /\ pc = "mounted" /\ req.op # "none"
        /\ UNCHANGED <<pc, argv, mounted>>

Next ==
    \/ Lookup
    \/ Getattr
    \/ Setattr
    \/ Read
    \/ Readdir
    \/ Write
    \/ Create
    \/ Mknod
    \/ Flush
    \/ Release
    \/ Fsync
    \/ Open
    \/ Releasedir
    \/ Fsyncdir
    \/ Opendir
    \/ Access
    \/ Getxattr

\* the session loop's dispatch: the handler a request goes to, applied to
\* the request's arguments
Handle(r) ==
    CASE r.op = "lookup"     -> lookup(r.parent, r.name)
      [] r.op = "getattr"    -> getattr(r.ino)
      [] r.op = "setattr"    -> setattr(r.ino, r.chg)
      [] r.op = "read"       -> read(r.ino, r.fh, r.offset, r.size)
      [] r.op = "readdir"    -> readdir(r.ino, r.fh, r.offset)
      [] r.op = "write"      -> write(r.ino, r.fh, r.offset, r.data)
      [] r.op = "create"     -> create(r.parent, r.name, r.flags)
      [] r.op = "mknod"      -> mknod(r.parent, r.name)
      [] r.op = "flush"      -> flush(r.ino, r.fh)
      [] r.op = "release"    -> release(r.ino, r.fh)
      [] r.op = "fsync"      -> fsync(r.ino, r.fh)
      [] r.op = "open"       -> open(r.ino, r.flags)
      [] r.op = "releasedir" -> releasedir(r.ino, r.fh)
      [] r.op = "fsyncdir"   -> fsyncdir(r.ino, r.fh)
      [] r.op = "opendir"    -> opendir(r.ino, r.flags)
      [] r.op = "access"     -> access(r.ino, r.mask)
      [] r.op = "getxattr"   -> getxattr(r.ino, r.name, r.size)

Spec == Init /\ [][Next]_vars

(* ------------------------------------------------------------------ *)
(* main: the command line, the option list, the mount call             *)
(* ------------------------------------------------------------------ *)

\* the longest list of -o occurrences tried
MaxOpts == 3

Paths == {"/mnt", "mnt/null"}

OptionValues == {"ro", "auto_unmount", "fsname=null"}

SeqsUpTo(S, n) == UNION {[1..k -> S] : k \in 0..n}

\* the command lines: MOUNT given or not, then zero or more -o values
Argvs ==
    [mount : {<< >>} \cup {<<p>> : p \in Paths},
     option : SeqsUpTo(OptionValues, MaxOpts)]

\* matches.values_of_os("OPTION"): None (<< >>) when the argument never
\* occurred, Some of the values (<<vs>>) otherwise
values_of_os(m) == IF m.option = << >> THEN << >> ELSE <<m.option>>

\* .flat_map(|x| vec![OsStr::new("-o"), x]).collect()
RECURSIVE flat_map(_)
flat_map(vs) ==
    IF vs = << >> THEN << >>
    ELSE <<"-o", Head(vs)>> \o flat_map(Tail(vs))

NotMounted == [called |-> FALSE, path |-> "", options |-> << >>]

InitMain ==
    /\ req = [op |-> "none"]
    /\ out = << >>
    /\ prev = [op |-> "none", ino |-> 0, err |-> 0, n |-> 0]
    /\ pc = "main"
    /\ argv \in Argvs
    /\ mounted = NotMounted

\* main up to its call of fuser::mount: get_matches() leaves with a usage
\* error when the required MOUNT is missing; the unwrap() of the option
\* values panics on None; otherwise mount is called
Main ==
    /\ pc = "main"
    /\ IF argv.mount = << >>
       THEN pc' = "usage" /\ mounted' = mounted
       ELSE IF values_of_os(argv) = << >>
            THEN pc' = "panicked" /\ mounted' = mounted
            ELSE /\ pc' = "mounted"
                 /\ mounted' = [called |-> TRUE,
                                path |-> argv.mount[1],
                                options |-> flat_map(values_of_os(argv)[1])]
    /\ UNCHANGED <<req, out, prev, argv>>

\* fuser::mount returns an error before serving: the unwrap() panics
MountErr ==
    /\ pc = "mounted"
    /\ req.op = "none"
    /\ pc' = "panicked"
    /\ UNCHANGED <<req, out, prev, argv, mounted>>

\* the session starts: the kernel's init is answered by the trait's default
SessionInit ==
    /\ pc = "mounted"
    /\ req.op = "none"
    /\ req' = [op |-> "init"]
    /\ out' = <<Ok>>
    /\ UNCHANGED <<prev, pc, argv, mounted>>

\* the filesystem is unmounted: fuser::mount returns Ok, main returns
Unmounted ==
    /\ pc = "mounted"
    /\ req.op # "none"
    /\ pc' = "exited"
    /\ UNCHANGED <<req, out, prev, argv, mounted>>

NextMain ==
    \/ Main
    \/ MountErr
    \/ SessionInit
    \/ Unmounted

SpecMain == InitMain /\ [][NextMain]_vars

(* ------------------------------------------------------------------ *)
(* Claims                                                              *)
(* ------------------------------------------------------------------ *)

\* C1: for every inode other than 1 and 2, every operation that takes an
\* inode argument replies ENOENT, whatever its other arguments are
\* (getxattr with a non-zero size included).
C1_UnknownInodeIsENOENT ==
    (/\ req.op \in {"getattr", "setattr", "read", "write", "readdir", "open",
                    "opendir", "release", "releasedir", "flush", "fsync",
                    "fsyncdir", "access", "getxattr"}
     /\ req.ino \notin {1, 2})
    => out = <<[t |-> "error", errno |-> ENOENT]>>

\* C2: an operation on a recognized inode of the wrong kind replies EPERM:
\* read and write on the directory inode 1, readdir on the file inode 2.
C2_WrongKindIsEPERM ==
    (\/ req.op \in {"read", "write"} /\ req.ino = 1
     \/ req.op = "readdir" /\ req.ino = 2)
    => out = <<[t |-> "error", errno |-> EPERM]>>

\* C3: in every reachable state, open(1) replies EPERM and open(2) replies
\* the handle 2 with the request's flags (the same 32 bits); opendir(2)
\* replies EPERM and opendir(1) replies the handle 1 with the flags.
C3_OpenOpendirSplit ==
    LET \* the i32 whose 32 bits are the word w
        signed(w) == IF w[2] >= 32768
                     THEN w[1] + 65536 * (w[2] - 65536)
                     ELSE w[1] + 65536 * w[2]
        opened(fh) == /\ Len(out) = 1
                      /\ out[1].t = "opened"
                      /\ out[1].fh = fh
                      /\ Len(out[1].flags) = 2
                      /\ signed(out[1].flags) = req.flags
        eperm == out = <<[t |-> "error", errno |-> EPERM]>>
    IN  /\ req.op = "open" /\ req.ino = 1 => eperm
        /\ req.op = "open" /\ req.ino = 2 => opened(2)
        /\ req.op = "opendir" /\ req.ino = 2 => eperm
        /\ req.op = "opendir" /\ req.ino = 1 => opened(1)

\* open(2, O_RDWR) answered with handle 2 and O_RDWR, right after a release
C3_Witness ==
    /\ prev.op = "release" /\ prev.ino = 2 /\ prev.err = 0
    /\ req.op = "open" /\ req.ino = 2 /\ req.flags = 2
    /\ out = <<[t |-> "opened", fh |-> 2, flags |-> <<2, 0>>]>>

\* C4: lookup succeeds exactly for parent 1 and name "null", and then
\* replies the file entity's attributes (inode 2, regular file, what
\* getattr(2) reports) with validity 1 s and generation 0; every other
\* (parent, name) replies ENOENT.
C4_LookupOnlyNull ==
    req.op = "lookup" =>
        IF req.parent = 1 /\ req.name = "null"
        THEN /\ Len(out) = 1
             /\ out[1].t = "entry"
             /\ out[1].attr.ino = 2
             /\ out[1].attr.kind = "RegularFile"
             /\ out[1].attr = getattr(2)[1].attr
             /\ out[1].ttl = 1
             /\ out[1].generation = 0
        ELSE out = <<[t |-> "error", errno |-> ENOENT]>>

\* lookup(1, "null") answered with inode 2
C4_Witness ==
    /\ req = [op |-> "lookup", parent |-> 1, name |-> "null"]
    /\ out[1].t = "entry"
    /\ out[1].attr.ino = 2

\* C5: readdir(1, k), for k in 0..3, lists exactly the entries of
\* [".", "..", "null"] (cookies 1, 2, 3; inodes 1, 1, 2) whose cookie is
\* greater than k, in order, and then replies ok; so it depends on k alone.
C5_ReaddirRestartable ==
    LET listing ==
            << [t |-> "add", ino |-> 1, offset |-> 1,
                kind |-> "Directory", name |-> "."],
               [t |-> "add", ino |-> 1, offset |-> 2,
                kind |-> "Directory", name |-> ".."],
               [t |-> "add", ino |-> 2, offset |-> 3,
                kind |-> "RegularFile", name |-> "null"] >>
        after(e) == e.offset > req.offset
    IN  (req.op = "readdir" /\ req.ino = 1 /\ req.offset \in 0..3)
        => out = SelectSeq(listing, after) \o <<[t |-> "ok"]>>

\* a listing resumed from cookie 2, after a listing of all three entries,
\* yields exactly "null"
C5_Witness ==
    /\ prev.op = "readdir" /\ prev.ino = 1 /\ prev.n = 3
    /\ req.op = "readdir" /\ req.ino = 1 /\ req.offset = 2
    /\ out = <<[t |-> "add", ino |-> 2, offset |-> 3,
                kind |-> "RegularFile", name |-> "null"],
               [t |-> "ok"]>>

\* C6: in every reachable state read on inode 2 returns zero bytes, for
\* every offset and size; a release of inode 2 that follows such a read
\* succeeds.
C6_ReadAlwaysEmpty ==
    /\ req.op = "read" /\ req.ino = 2 => out = <<[t |-> "data", data |-> << >>]>>
    /\ prev.op = "read" /\ prev.ino = 2 => prev.err = 0 /\ prev.n = 0
    /\ (prev.op = "read" /\ prev.ino = 2 /\ req.op = "release" /\ req.ino = 2)
       => out = <<[t |-> "ok"]>>

\* read(2, 0, 5) returns nothing right after a write acknowledged 5 bytes
C6_Witness ==
    /\ prev = [op |-> "write", ino |-> 2, err |-> 0, n |-> 5]
    /\ req.op = "read" /\ req.ino = 2 /\ req.offset = 0 /\ req.size = 5
    /\ out = <<[t |-> "data", data |-> << >>]>>

\* C7: write on inode 2 reports exactly len(data) bytes, for any offset and
\* data, as a 32-bit unsigned value.
C7_WriteReportsLen ==
    (req.op = "write" /\ req.ino = 2) =>
        /\ Len(out) = 1
        /\ out[1].t = "written"
        /\ Len(out[1].size) = 2
        /\ \A i \in 1..2 : out[1].size[i] \in 0..65535
        /\ out[1].size[1] + 65536 * out[1].size[2] = Len(req.data)

\* b"hello" written beyond the reported size 0 is acknowledged as 5 bytes
C7_Witness ==
    /\ req.op = "write" /\ req.ino = 2
    /\ req.offset > 0
    /\ req.data = <<104, 101, 108, 108, 111>>
    /\ out = <<[t |-> "written", size |-> <<5, 0>>]>>

\* C8: in every reachable state getattr(1) reports inode 1, directory,
\* size 0, 2 links, mode 0o777 and getattr(2) reports inode 2, regular
\* file, size 0, 1 link, mode 0o666.
C8_GetattrFixed ==
    LET reports(ino, kind, nlink, perm) ==
            /\ Len(out) = 1
            /\ out[1].t = "attr"
            /\ out[1].attr.ino = ino
            /\ out[1].attr.kind = kind
            /\ out[1].attr.size = 0
            /\ out[1].attr.nlink = nlink
            /\ out[1].attr.perm = perm
    IN  /\ req.op = "getattr" /\ req.ino = 1
           => reports(1, "Directory", 2, 7 * 64 + 7 * 8 + 7)
        /\ req.op = "getattr" /\ req.ino = 2
           => reports(2, "RegularFile", 1, 6 * 64 + 6 * 8 + 6)

\* getattr(2) still reports size 0 right after a write acknowledged 5 bytes
C8_Witness ==
    /\ prev = [op |-> "write", ino |-> 2, err |-> 0, n |-> 5]
    /\ req = [op |-> "getattr", ino |-> 2]
    /\ out[1].t = "attr"
    /\ out[1].attr.size = 0

\* C9: setattr on inode 1 or 2 replies what getattr replies for that inode,
\* with none of the requested fields applied (size, mode, owner, times and
\* flags keep their fixed values), and a getattr that follows a setattr
\* reports those same fixed values.
C9_SetattrAppliesNothing ==
    LET unchanged(a, ino) ==
            /\ a.ino = ino
            /\ a.size = 0
            /\ a.perm = IF ino = 1 THEN 511 ELSE 438
            /\ a.uid = 0 /\ a.gid = 0 /\ a.flags = 0
            /\ a.atime = 0 /\ a.mtime = 0 /\ a.ctime = 0 /\ a.crtime = 0
    IN  /\ (req.op = "setattr" /\ req.ino \in {1, 2})
           => /\ out = getattr(req.ino)
              /\ out[1].t = "attr"
              /\ unchanged(out[1].attr, req.ino)
        /\ (prev.op = "setattr" /\ prev.ino \in {1, 2}
            /\ req.op = "getattr" /\ req.ino = prev.ino)
           => /\ prev.err = 0
              /\ out[1].t = "attr"
              /\ unchanged(out[1].attr, req.ino)

\* a setattr asking for a new size, mode, owner, times and flags on inode 2
\* is answered with size 0 and mode 0o666
C9_Witness ==
    /\ req.op = "setattr" /\ req.ino = 2
    /\ req.chg.size # << >> /\ req.chg.mode # << >>
    /\ out[1].t = "attr"
    /\ out[1].attr.size = 0
    /\ out[1].attr.perm = 438

\* C10: getxattr on inode 1 or 2, for any name: size 0 succeeds reporting
\* length 0, any size above 0 fails with ERANGE.
C10_GetxattrSizeSplit ==
    (req.op = "getxattr" /\ req.ino \in {1, 2}) =>
        IF req.size = 0
        THEN out = <<[t |-> "size", size |-> 0]>>
        ELSE out = <<[t |-> "error", errno |-> ERANGE]>>

\* getxattr on inode 1 with a 5-byte buffer fails with ERANGE
C10_Witness ==
    /\ req.op = "getxattr" /\ req.ino = 1 /\ req.size = 5
    /\ out = <<[t |-> "error", errno |-> 34]>>

\* C11: create and mknod succeed exactly for parent 1 and name "null",
\* replying the existing file entity (inode 2, what getattr(2) reports;
\* create also the handle 2 and the request's flags); every other
\* (parent, name) is refused with EPERM.  After either of them, accepted or
\* refused, readdir(1, 0) lists exactly ".", "..", "null" and a lookup of
\* any name that is refused still fails with ENOENT.
C11_NamespaceClosed ==
    LET accepted == req.parent = 1 /\ req.name = "null"
        isFile(e) == /\ e.attr.ino = 2
                     /\ e.attr.kind = "RegularFile"
                     /\ e.attr = getattr(2)[1].attr
                     /\ e.generation = 0
        eperm == out = <<[t |-> "error", errno |-> EPERM]>>
        names == [i \in 1..(Len(out) - 1) |-> out[i].name]
    IN  /\ req.op = "create" =>
               IF accepted
               THEN /\ Len(out) = 1
                    /\ out[1].t = "created"
                    /\ isFile(out[1])
                    /\ out[1].fh = 2
                    /\ out[1].flags = <<req.flags % 65536,
                                        (req.flags \div 65536) % 65536>>
               ELSE eperm
        /\ req.op = "mknod" =>
               IF accepted
               THEN Len(out) = 1 /\ out[1].t = "entry" /\ isFile(out[1])
               ELSE eperm
        /\ (prev.op \in {"create", "mknod"}
            /\ req.op = "readdir" /\ req.ino = 1 /\ req.offset = 0)
           => /\ names = <<".", "..", "null">>
              /\ out[Len(out)] = [t |-> "ok"]
        /\ (prev.op \in {"create", "mknod"}
            /\ req.op = "lookup" /\ ~accepted)
           => out = <<[t |-> "error", errno |-> ENOENT]>>

\* the listing of the root right after a refused create in the root
C11_Witness ==
    /\ prev = [op |-> "create", ino |-> 1, err |-> 1, n |-> 0]
    /\ req.op = "readdir" /\ req.ino = 1 /\ req.offset = 0
    /\ Len(out) = 4
    /\ out[3].name = "null"

\* C12: a reply of EPERM is given only to a request whose inode or parent
\* argument is inode 1 or 2; an identifier that is neither is never
\* answered with EPERM (create and mknod under an unknown parent included).
C12_EPERMOnlyForKnown ==
    (req.op # "init" /\ out[Len(out)] = [t |-> "error", errno |-> EPERM])
    => (IF req.op \in {"lookup", "create", "mknod"}
        THEN req.parent
        ELSE req.ino) \in {1, 2}

\* C13: flush, release and fsync have open's outcome for every inode
\* (success on 2, EPERM on 1, ENOENT otherwise) and releasedir and fsyncdir
\* have opendir's (success on 1, EPERM on 2, ENOENT otherwise); a successful
\* one changes no later reply: the same operation, and open or opendir, on
\* the same inode succeed right after it as before.
C13_CloseMirrorsOpen ==
    LET \* 0 for a success, else the errno
        outcome(o) == IF o[Len(o)].t = "error" THEN o[Len(o)].errno ELSE 0
        fileSide == {"flush", "release", "fsync"}
        dirSide == {"releasedir", "fsyncdir"}
        split(ino, good, bad) ==
            CASE ino = good -> out = <<[t |-> "ok"]>>
              [] ino = bad  -> out = <<[t |-> "error", errno |-> EPERM]>>
              [] OTHER      -> out = <<[t |-> "error", errno |-> ENOENT]>>
    IN  /\ req.op \in fileSide
           => /\ split(req.ino, 2, 1)
              /\ \A f \in Flags : outcome(out) = outcome(open(req.ino, f))
        /\ req.op \in dirSide
           => /\ split(req.ino, 1, 2)
              /\ \A f \in Flags : outcome(out) = outcome(opendir(req.ino, f))
        /\ (prev.op \in fileSide /\ prev.err = 0
            /\ req.op \in fileSide \cup {"open"} /\ req.ino = prev.ino)
           => outcome(out) = 0
        /\ (prev.op \in dirSide /\ prev.err = 0
            /\ req.op \in dirSide \cup {"opendir"} /\ req.ino = prev.ino)
           => outcome(out) = 0

\* a second release of inode 2, right after a successful one, succeeds too
C13_Witness ==
    /\ prev = [op |-> "release", ino |-> 2, err |-> 0, n |-> 0]
    /\ req.op = "release" /\ req.ino = 2
    /\ out = <<[t |-> "ok"]>>

\* C14: the reply to a request is a function of its arguments only.  In
\* every reachable state, whatever exchanges (accepted or refused) led to
\* it, the request just answered would get the very same reply if it were
\* sent again now; and an operation whose outcome is decided by its inode
\* alone ends as the same operation on the same inode ended in the
\* exchange before, also when that exchange was refused.
C14_Stateless ==
    /\ req.op # "init" => out = Handle(req)
    /\ (/\ req.op \in {"getattr", "setattr", "read", "write", "readdir",
                       "open", "opendir", "release", "releasedir", "flush",
                       "fsync", "fsyncdir", "access"}
        /\ prev.op = req.op
        /\ prev.ino = req.ino)
       => prev.err = (IF out[Len(out)].t = "error"
                      THEN out[Len(out)].errno ELSE 0)
    /\ prev.err # 0 => Len(out) >= 1

\* getattr(2) is answered as usual right after a read of inode 3 was refused
C14_Witness ==
    /\ prev = [op |-> "read", ino |-> 3, err |-> 2, n |-> 0]
    /\ req = [op |-> "getattr", ino |-> 2]
    /\ out[1].t = "attr"
    /\ out[1].attr.ino = 2

\* C15: every handler ends its reply object exactly once: the events of an
\* exchange are directory entries followed by one final reply (a success or
\* an error), never none and never two.  readdir on an inode other than 1
\* sends the error alone, and getxattr sends one reply: the length or
\* ENOENT when size is 0, ERANGE otherwise.
C15_ExactlyOneReply ==
    LET finals == {"error", "attr", "entry", "data", "ok", "written",
                   "created", "opened", "size"}
    IN  /\ Len(out) >= 1
        /\ Cardinality({i \in 1..Len(out) : out[i].t \in finals}) = 1
        /\ out[Len(out)].t \in finals
        /\ \A i \in 1..(Len(out) - 1) : out[i].t = "add"
        /\ req.op # "readdir" => Len(out) = 1
        /\ (req.op = "readdir" /\ req.ino # 1)
           => out = <<[t |-> "error", errno |-> ENOENT]>>
        /\ req.op = "getxattr"
           => /\ Len(out) = 1
              /\ out[1].t = "error" /\ out[1].errno = ERANGE <=> req.size # 0

\* readdir on the file inode 2 from offset 0 sends ENOENT and no entry
C15_Witness ==
    /\ req.op = "readdir" /\ req.ino = 2 /\ req.offset = 0
    /\ out = <<[t |-> "error", errno |-> 2]>>

\* C17: readdir(1, offset) with an offset outside 0..2 (3 or more, or
\* negative, which the cast turns into a huge unsigned index) replies a
\* successful empty listing: no entry and no error.  So a listing resumed
\* from the last cookie, 3, ends with an empty result.
C17_ReaddirBeyondEnd ==
    /\ (req.op = "readdir" /\ req.ino = 1 /\ req.offset \notin 0..2)
       => out = <<[t |-> "ok"]>>
    /\ (req.op = "readdir" /\ req.ino = 1 /\ req.offset \in 0..2)
       => /\ Len(out) = 4 - req.offset
          /\ out[Len(out) - 1].offset = 3

\* readdir(1, -65536): the unsigned index is 2^64 - 2^16, nothing is listed
C17_Witness ==
    /\ req.op = "readdir" /\ req.ino = 1 /\ req.offset = -65536
    /\ out = <<[t |-> "ok"]>>

\* C16: for any list of option values v1..vn, n >= 0, main reaches the mount
\* call with the mount path and the options <<"-o", v1, ..., "-o", vn>> in
\* the given order; with n = 0 the mount call is reached with no option.
C16_MountReachedWithOptions ==
    (pc # "main" /\ argv.mount # << >>)
    => /\ mounted.called
       /\ mounted.path = argv.mount[1]
       /\ Len(mounted.options) = 2 * Len(argv.option)
       /\ \A i \in 1..Len(argv.option) :
              /\ mounted.options[2 * i - 1] = "-o"
              /\ mounted.options[2 * i] = argv.option[i]

\* C18: read, write, flush, fsync and release on inode 2, and readdir,
\* fsyncdir and releasedir on inode 1, reply successfully whatever exchange
\* came before (none, an open or opendir, a release or releasedir), and the
\* reply is the same for every file handle, returned by an open or not: the
\* handle is not consulted.
C18_NoSessionTracking ==
    (\/ (req.op \in {"read", "write", "flush", "fsync", "release"}
         /\ req.ino = 2)
     \/ (req.op \in {"readdir", "fsyncdir", "releasedir"} /\ req.ino = 1))
    => /\ out[Len(out)].t \in {"data", "written", "ok"}
       /\ \A fh \in Fhs : Handle([req EXCEPT !.fh = fh]) = out

\* a flush of inode 2 on handle 0, which no open returned, right after a
\* release of inode 2: it succeeds
C18_Witness ==
    /\ prev = [op |-> "release", ino |-> 2, err |-> 0, n |-> 0]
    /\ req = [op |-> "flush", ino |-> 2, fh |-> 0]
    /\ out = <<[t |-> "ok"]>>

\* C19: the listing agrees with lookup and getattr in every reachable state:
\* each entry readdir(1, 0) yields has an inode in {1, 2} for which getattr
\* succeeds with that inode number and that kind, and the only entry other
\* than "." and ".." is named "null", with lookup(1, "null") returning that
\* entry's inode, 2.
C19_ListingAgrees ==
    (req.op = "readdir" /\ req.ino = 1 /\ req.offset = 0)
    => /\ Len(out) = 4
       /\ \A i \in 1..3 :
              /\ out[i].t = "add"
              /\ out[i].ino \in {1, 2}
              /\ getattr(out[i].ino)[1].t = "attr"
              /\ getattr(out[i].ino)[1].attr.ino = out[i].ino
              /\ getattr(out[i].ino)[1].attr.kind = out[i].kind
              /\ out[i].name \notin {".", ".."}
                 => /\ out[i].name = "null"
                    /\ out[i].ino = 2
                    /\ lookup(1, "null")[1].t = "entry"
                    /\ lookup(1, "null")[1].attr.ino = out[i].ino
                    /\ lookup(1, "null")[1].attr.kind = out[i].kind
       /\ {out[i].name : i \in 1..3} = {".", "..", "null"}

\* a full listing, asked for after a write of five bytes went through
C19_Witness ==
    /\ prev.op = "write" /\ prev.n = 5
    /\ req.op = "readdir" /\ req.ino = 1 /\ req.offset = 0
    /\ Len(out) = 4
    /\ out[3].name = "null"

====
